---- MODULE Spec2Model ----
(***************************************************************************)
(* Model of rwb_core/src/url.rs: the Url value and its validating          *)
(* constructor Url::new, with the five field extractors it calls and the   *)
(* read accessors.                                                         *)
(*                                                                         *)
(* A Rust String is modelled as the sequence of its UTF-8 bytes, each byte *)
(* written as a one-character TLA+ string; the two bytes of a non-ASCII    *)
(* character are "xC3" (lead byte) and "xA9" (continuation byte).  Indices *)
(* are 0-based byte offsets, as str::find returns them, and a slice whose  *)
(* end points are out of range or not on a character boundary panics, as   *)
(* in Rust.  Option<T> is <<>> for None and <<v>> for Some(v).             *)
(***************************************************************************)
EXTENDS Integers, Sequences, FiniteSets

VARIABLES url, pc, res, out

vars == <<url, pc, res, out>>

(***************************************************************************)
(* Bounds of the input space.                                              *)
(***************************************************************************)
MaxTokens == 4

(***************************************************************************)
(* Values of the Rust standard library used by the source.                 *)
(***************************************************************************)
None == <<>>

Some(v) == <<v>>

Panic == <<"panic">>

Ret(v) == <<"ok", v>>

IsPanic(r) == r[1] = "panic"

U16_MAX == 65535

SEP == <<":", "/", "/">>

HTTP == <<"h", "t", "t", "p">>

Digits == {"0", "1", "2", "3", "4", "5", "6", "7", "8", "9"}

DigitVal(c) ==
  CASE c = "0" -> 0 [] c = "1" -> 1 [] c = "2" -> 2 [] c = "3" -> 3
    [] c = "4" -> 4 [] c = "5" -> 5 [] c = "6" -> 6 [] c = "7" -> 7
    [] c = "8" -> 8 [] c = "9" -> 9

\* A UTF-8 continuation byte (10xxxxxx); the alphabet has one.
IsContinuation(b) == b = "xA9"

\* str::is_char_boundary, on a 0-based byte offset.
is_char_boundary(s, i) ==
  \/ i = 0
  \/ i = Len(s)
  \/ i > 0 /\ i < Len(s) /\ ~IsContinuation(s[i + 1])

\* &s[a..b]: the bytes at offsets a .. b-1, or a panic.
slice(s, a, b) ==
  IF a <= b /\ b <= Len(s) /\ is_char_boundary(s, a) /\ is_char_boundary(s, b)
  THEN Ret(SubSeq(s, a + 1, b))
  ELSE Panic

\* str::find with a char or a closure over chars: the offset of the first
\* byte that is one of cs.
find(s, cs) ==
  LET hits == {i \in 0 .. Len(s) - 1 : s[i + 1] \in cs}
  IN  IF hits = {} THEN None
      ELSE Some(CHOOSE i \in hits : \A j \in hits : i <= j)

\* str::find with a string pattern: the offset of its first occurrence.
find_str(s, pat) ==
  LET hits == {i \in 0 .. Len(s) - Len(pat) :
                 SubSeq(s, i + 1, i + Len(pat)) = pat}
  IN  IF hits = {} THEN None
      ELSE Some(CHOOSE i \in hits : \A j \in hits : i <= j)

\* str::split(pat).collect(): the pieces between the successive,
\* non-overlapping occurrences of pat, every occurrence splitting.
RECURSIVE split(_, _)
split(s, pat) ==
  LET at == find_str(s, pat)
  IN  IF at = None THEN <<s>>
      ELSE <<SubSeq(s, 1, at[1])>>
             \o split(SubSeq(s, at[1] + Len(pat) + 1, Len(s)), pat)

\* Variant of parse_digits: the accumulator wraps at 2^16 instead of being
\* checked.
RECURSIVE parse_digits_wrapping(_, _)
parse_digits_wrapping(digits, acc) ==
  IF digits = <<>> THEN [ok |-> TRUE, val |-> acc]
  ELSE IF Head(digits) \notin Digits THEN [ok |-> FALSE, val |-> 0]
  ELSE parse_digits_wrapping(Tail(digits),
                             (acc * 10 + DigitVal(Head(digits))) % 65536)

\* The digit loop of str::parse::<u16>: checked multiply by 10 and checked
\* add of each digit; a non-digit or an overflow is an Err.
RECURSIVE parse_digits(_, _)
parse_digits(digits, acc) ==
  IF digits = <<>> THEN [ok |-> TRUE, val |-> acc]
  ELSE IF Head(digits) \notin Digits THEN [ok |-> FALSE, val |-> 0]
  ELSE LET mul == acc * 10
           add == mul + DigitVal(Head(digits))
       IN  IF mul > U16_MAX \/ add > U16_MAX THEN [ok |-> FALSE, val |-> 0]
           ELSE parse_digits(Tail(digits), add)

\* str::parse::<u16>: empty, a lone sign, a '-' (the type is unsigned), a
\* non-digit or a value above u16::MAX is an Err; one leading '+' is
\* accepted.
parse_u16(src) ==
  IF src = <<>> THEN [ok |-> FALSE, val |-> 0]
  ELSE IF Len(src) = 1 /\ src[1] \in {"+", "-"} THEN [ok |-> FALSE, val |-> 0]
  ELSE IF src[1] = "+" THEN parse_digits(Tail(src), 0)
  ELSE parse_digits(src, 0)

(***************************************************************************)
(* impl Url                                                                *)
(***************************************************************************)
\* Variant of parse_scheme: an input without the separator is its own
\* scheme.
parse_scheme_whole(u) ==
  LET url_parts == split(u, SEP)
  IN  IF Len(url_parts) > 1 THEN url_parts[1] ELSE u

parse_scheme(u) ==
  LET url_parts == split(u, SEP)
  IN  IF Len(url_parts) > 1 THEN url_parts[1] ELSE <<>>

parse_host(u) ==
  LET url_parts == split(u, SEP)
  IN  IF Len(url_parts) > 1
      THEN LET colon == find(url_parts[2], {":"})
               slash == find(url_parts[2], {"/"})
           IN  IF colon # None THEN slice(url_parts[2], 0, colon[1])
               ELSE IF slash # None THEN slice(url_parts[2], 0, slash[1])
               ELSE Ret(<<>>)
      ELSE Ret(<<>>)

\* Variant of parse_port: the port text starts two bytes after the colon.
parse_port_skip(u) ==
  LET url_parts == split(u, SEP)
  IN  IF Len(url_parts) > 1
      THEN LET host_and_path == url_parts[2]
               colon_index == find(host_and_path, {":"})
           IN  IF colon_index # None
               THEN LET rest_ == slice(host_and_path, colon_index[1] + 2,
                                       Len(host_and_path))
                    IN  IF IsPanic(rest_) THEN Panic
                        ELSE LET rest == rest_[2]
                                 end_index == find(rest, {"/", "?"})
                             IN  IF end_index # None
                                 THEN LET digits == slice(rest, 0, end_index[1])
                                      IN  IF IsPanic(digits) THEN Panic
                                          ELSE IF parse_u16(digits[2]).ok
                                          THEN Ret(Some(parse_u16(digits[2]).val))
                                          ELSE Ret(Some(80))
                                 ELSE IF parse_u16(rest).ok
                                 THEN Ret(Some(parse_u16(rest).val))
                                 ELSE Ret(Some(80))
               ELSE Ret(Some(80))
      ELSE Ret(Some(80))

parse_port(u) ==
  LET url_parts == split(u, SEP)
  IN  IF Len(url_parts) > 1
      THEN LET host_and_path == url_parts[2]
               colon_index == find(host_and_path, {":"})
           IN  IF colon_index # None
               THEN LET rest_ == slice(host_and_path, colon_index[1] + 1,
                                       Len(host_and_path))
                    IN  IF IsPanic(rest_) THEN Panic
                        ELSE LET rest == rest_[2]
                                 end_index == find(rest, {"/", "?"})
                             IN  IF end_index # None
                                 THEN LET digits == slice(rest, 0, end_index[1])
                                      IN  IF IsPanic(digits) THEN Panic
                                          ELSE IF parse_u16(digits[2]).ok
                                          THEN Ret(Some(parse_u16(digits[2]).val))
                                          ELSE Ret(Some(80))
                                 ELSE IF parse_u16(rest).ok
                                 THEN Ret(Some(parse_u16(rest).val))
                                 ELSE Ret(Some(80))
               ELSE Ret(Some(80))
      ELSE Ret(Some(80))

\* Variant of parse_path: the path is not cut at the '?'.
parse_path_uncut(u) ==
  LET url_parts == split(u, SEP)
  IN  IF Len(url_parts) > 1
      THEN LET index == find(url_parts[2], {"/"})
           IN  IF index # None
               THEN slice(url_parts[2], index[1], Len(url_parts[2]))
               ELSE Ret(<<"/">>)
      ELSE Ret(<<"/">>)

parse_path(u) ==
  LET url_parts == split(u, SEP)
  IN  IF Len(url_parts) > 1
      THEN LET index == find(url_parts[2], {"/"})
           IN  IF index # None
               THEN LET path_and_query_ == slice(url_parts[2], index[1],
                                                 Len(url_parts[2]))
                    IN  IF IsPanic(path_and_query_) THEN Panic
                        ELSE LET path_and_query == path_and_query_[2]
                                 index2 == find(path_and_query, {"?"})
                             IN  IF index2 # None
                                 THEN slice(path_and_query, 0, index2[1])
                                 ELSE Ret(path_and_query)
               ELSE Ret(<<"/">>)
      ELSE Ret(<<"/">>)

\* Variant of parse_query: an empty query is reported as no query.
parse_query_nonempty(u) ==
  LET url_parts == split(u, SEP)
  IN  IF Len(url_parts) > 1
      THEN LET index == find(url_parts[2], {"?"})
           IN  IF index # None
               THEN LET q == slice(url_parts[2], index[1] + 1, Len(url_parts[2]))
                    IN  IF IsPanic(q) THEN Panic
                        ELSE IF q[2] = <<>> THEN Ret(None)
                        ELSE Ret(Some(q[2]))
               ELSE Ret(None)
      ELSE Ret(None)

parse_query(u) ==
  LET url_parts == split(u, SEP)
  IN  IF Len(url_parts) > 1
      THEN LET index == find(url_parts[2], {"?"})
           IN  IF index # None
               THEN LET q == slice(url_parts[2], index[1] + 1, Len(url_parts[2]))
                    IN  IF IsPanic(q) THEN Panic ELSE Ret(Some(q[2]))
               ELSE Ret(None)
      ELSE Ret(None)

\* The format string of the error of Url::new, around its one argument.
ERR_PREFIX ==
  <<"U", "n", "s", "u", "p", "p", "o", "r", "t", "e", "d", " ", "s", "c",
    "h", "e", "m", "e", ":", " ">>

ERR_SUFFIX ==
  <<".", " ", "O", "n", "l", "y", " ", "'", "h", "t", "t", "p", "'", " ",
    "i", "s", " ", "a", "l", "l", "o", "w", "e", "d", ".">>

\* Variant of scheme_supported: any scheme that starts with "http".
scheme_supported_prefix(scheme) ==
  Len(scheme) >= Len(HTTP) /\ SubSeq(scheme, 1, Len(HTTP)) = HTTP

scheme_supported(scheme) == scheme = HTTP

\* Url::new.  Rust evaluates the fields of the struct expression in the
\* order written, so the first extractor to panic ends the call.
Url_new(u) ==
  LET scheme == parse_scheme(u)
  IN  IF ~scheme_supported(scheme)
      THEN [tag |-> "Err", msg |-> ERR_PREFIX \o scheme \o ERR_SUFFIX]
      ELSE LET host == parse_host(u)
               port == parse_port(u)
               path == parse_path(u)
               query == parse_query(u)
           IN  IF IsPanic(host) \/ IsPanic(port) \/ IsPanic(path)
                  \/ IsPanic(query)
               THEN [tag |-> "Panic"]
               ELSE [tag |-> "Ok", url |-> u, scheme |-> scheme,
                     host |-> host[2], port |-> port[2], path |-> path[2],
                     query |-> query[2]]

(***************************************************************************)
(* The input space: a prefix that decides the scheme, followed by at most  *)
(* MaxTokens tokens.  The tokens hold every delimiter the extractors look  *)
(* for, the pieces of port numbers on both sides of u16::MAX, a sign, and  *)
(* a two-byte character; ":", "/", "/" in a row make a further "://".      *)
(***************************************************************************)
Prefixes ==
  { <<>>,
    HTTP \o SEP,
    HTTP \o <<"s">> \o SEP,
    <<"x">> \o HTTP \o SEP }

Tokens ==
  { <<"h">>, <<":">>, <<"/">>, <<"?">>, <<"0">>, <<"8">>, <<"+">>,
    <<"6", "5", "5", "3", "5">>, <<"6", "5", "5", "3", "6">>,
    <<"xC3", "xA9">> }

RECURSIVE TokenStrings(_)
TokenStrings(n) ==
  IF n = 0 THEN {<<>>}
  ELSE LET shorter == TokenStrings(n - 1)
       IN  shorter \cup {s \o t : s \in shorter, t \in Tokens}

Inputs == {p \o s : p \in Prefixes, s \in TokenStrings(MaxTokens)}

NoResult == [tag |-> "None"]

Init ==
  /\ url \in Inputs
  /\ pc = "start"
  /\ res = NoResult
  /\ out = <<"none">>

\* let url = Url::new(url)
New ==
  /\ pc = "start"
  /\ res' = Url_new(url)
  /\ pc' = IF res'.tag = "Panic" THEN "panicked" ELSE "done"
  /\ UNCHANGED <<url, out>>

\* url.scheme()
Scheme ==
  /\ pc = "done" /\ res.tag = "Ok"
  /\ out' = <<"scheme", res.scheme>>
  /\ pc' = "read"
  /\ UNCHANGED <<url, res>>

\* url.host()
Host ==
  /\ pc = "done" /\ res.tag = "Ok"
  /\ out' = <<"host", res.host>>
  /\ pc' = "read"
  /\ UNCHANGED <<url, res>>

\* url.port(): self.port.unwrap() panics on None.
Port ==
  /\ pc = "done" /\ res.tag = "Ok"
  /\ IF res.port = None
     THEN out' = <<"panic">> /\ pc' = "panicked"
     ELSE out' = <<"port", res.port[1]>> /\ pc' = "read"
  /\ UNCHANGED <<url, res>>

\* url.path()
Path ==
  /\ pc = "done" /\ res.tag = "Ok"
  /\ out' = <<"path", res.path>>
  /\ pc' = "read"
  /\ UNCHANGED <<url, res>>

\* url.query()
Query ==
  /\ pc = "done" /\ res.tag = "Ok"
  /\ out' = <<"query", res.query>>
  /\ pc' = "read"
  /\ UNCHANGED <<url, res>>

Next == New \/ Scheme \/ Host \/ Port \/ Path \/ Query

Spec == Init /\ [][Next]_vars

(***************************************************************************)
(* The text of an input, read independently of the extractors: positions   *)
(* are 1-based and every operator is a direct description of a substring.  *)
(***************************************************************************)
Min(S) == CHOOSE i \in S : \A j \in S : i <= j

SepPositions(s) ==
  {i \in 1 .. Len(s) - 2 : s[i] = ":" /\ s[i + 1] = "/" /\ s[i + 2] = "/"}

HasSep(s) == SepPositions(s) # {}

SingleSep(s) == Cardinality(SepPositions(s)) = 1

BeforeFirstSep(s) == SubSeq(s, 1, Min(SepPositions(s)) - 1)

AfterFirstSep(s) == SubSeq(s, Min(SepPositions(s)) + 3, Len(s))

Positions(s, cs) == {i \in 1 .. Len(s) : s[i] \in cs}

\* The first position at or after from that holds one of cs, else Len(s) + 1.
FirstFrom(s, cs, from) ==
  LET later == {i \in Positions(s, cs) : i >= from}
  IN  IF later = {} THEN Len(s) + 1 ELSE Min(later)

HasScheme(s) == HasSep(s) /\ BeforeFirstSep(s) = HTTP

ExpectedMessage(found) ==
  <<"U", "n", "s", "u", "p", "p", "o", "r", "t", "e", "d", " ", "s", "c",
    "h", "e", "m", "e", ":", " ">>
  \o found \o
  <<".", " ", "O", "n", "l", "y", " ", "'", "h", "t", "t", "p", "'", " ",
    "i", "s", " ", "a", "l", "l", "o", "w", "e", "d", ".">>

\* Host of a remainder: up to the first ':', else up to the first '/', else
\* all of it.
HostOf(r) ==
  IF Positions(r, {":"}) # {} THEN SubSeq(r, 1, FirstFrom(r, {":"}, 1) - 1)
  ELSE IF Positions(r, {"/"}) # {} THEN SubSeq(r, 1, FirstFrom(r, {"/"}, 1) - 1)
  ELSE r

\* The characters after the first ':' up to the first '/' or '?' after it.
PortText(r) ==
  LET colon == FirstFrom(r, {":"}, 1)
  IN  SubSeq(r, colon + 1, FirstFrom(r, {"/", "?"}, colon + 1) - 1)

\* The value of a string of decimal digits, saturating just above u16::MAX.
RECURSIVE DecimalValue(_)
DecimalValue(d) ==
  IF d = <<>> THEN 0
  ELSE LET v == DecimalValue(SubSeq(d, 1, Len(d) - 1)) * 10
                  + DigitVal(d[Len(d)])
       IN  IF v > U16_MAX THEN U16_MAX + 1 ELSE v

Unsigned(t) == IF t # <<>> /\ t[1] = "+" THEN Tail(t) ELSE t

IsU16Text(t) ==
  /\ Unsigned(t) # <<>>
  /\ \A i \in 1 .. Len(Unsigned(t)) : Unsigned(t)[i] \in Digits
  /\ DecimalValue(Unsigned(t)) <= U16_MAX

PortOf(r) ==
  IF Positions(r, {":"}) # {} /\ IsU16Text(PortText(r))
  THEN DecimalValue(Unsigned(PortText(r)))
  ELSE 80

\* Path of a remainder: from its first '/' to before the first '?' after it.
PathOf(r) ==
  IF Positions(r, {"/"}) = {} THEN <<"/">>
  ELSE LET slash == FirstFrom(r, {"/"}, 1)
       IN  SubSeq(r, slash, FirstFrom(r, {"?"}, slash) - 1)

\* Query of a remainder: all that follows its first '?'.
QueryOf(r) ==
  IF Positions(r, {"?"}) = {} THEN None
  ELSE Some(SubSeq(r, FirstFrom(r, {"?"}, 1) + 1, Len(r)))

DigitChar(d) ==
  CASE d = 0 -> "0" [] d = 1 -> "1" [] d = 2 -> "2" [] d = 3 -> "3"
    [] d = 4 -> "4" [] d = 5 -> "5" [] d = 6 -> "6" [] d = 7 -> "7"
    [] d = 8 -> "8" [] d = 9 -> "9"

RECURSIVE Decimal(_)
Decimal(n) ==
  IF n < 10 THEN <<DigitChar(n)>>
  ELSE Decimal(n \div 10) \o <<DigitChar(n % 10)>>

\* http://{host}:{port}{path}{?query}
Canonical(r) ==
  HTTP \o SEP \o r.host \o <<":">> \o Decimal(r.port[1]) \o r.path
    \o (IF r.query = None THEN <<>> ELSE <<"?">> \o r.query[1])

Returned == pc # "start"

Accepted == Returned /\ res.tag = "Ok"

(***************************************************************************)
(* Properties                                                              *)
(***************************************************************************)

\* C1: Url::new returns Ok exactly when the text before the first "://" of
\* the input is "http"; whatever follows the separator does not matter.
InvSchemeGate == Returned => (res.tag = "Ok" <=> HasScheme(url))

\* an input accepted although a second "://" follows the first
WitSchemeGate ==
  /\ pc = "done" /\ res.tag = "Ok"
  /\ Cardinality(SepPositions(url)) = 2

\* C2: a failing Url::new returns "Unsupported scheme: <found>. Only 'http'
\* is allowed." with <found> the text before the first "://", and the empty
\* text when the input has no "://", in which case it always fails.
InvErrorMessage ==
  Returned =>
    /\ res.tag # "Ok" =>
         /\ res.tag = "Err"
         /\ res.msg = ExpectedMessage(IF HasSep(url) THEN BeforeFirstSep(url)
                                      ELSE <<>>)
    /\ ~HasSep(url) => res.tag = "Err" /\ res.msg = ExpectedMessage(<<>>)

\* a non-empty input without "://" rejected with the empty scheme
WitErrorMessage ==
  /\ pc = "done" /\ res.tag = "Err"
  /\ url # <<>> /\ ~HasSep(url)
  /\ res.msg = ExpectedMessage(<<>>)

\* C3: the host of an accepted input is the text after "://" up to the
\* first ':', else up to the first '/', else the whole of it.
InvHostRule == Accepted => res.host = HostOf(AfterFirstSep(url))

\* C4: for an accepted input with one "://", the port is in 0..65535: the
\* u16 value of the text between the first ':' and the next '/' or '?' when
\* there is a ':' and that text parses, and 80 otherwise.
InvPortRule ==
  Accepted /\ SingleSep(url) =>
    /\ res.port # None
    /\ res.port[1] \in 0 .. U16_MAX
    /\ res.port[1] = PortOf(AfterFirstSep(url))

\* the largest port, parsed from the text between a host and a '/'
WitPortRule ==
  /\ pc = "done" /\ res.tag = "Ok" /\ SingleSep(url)
  /\ res.host = <<"h">>
  /\ res.port = Some(U16_MAX)
  /\ res.path = <<"/">> /\ Positions(AfterFirstSep(url), {"/"}) # {}

\* C5: for an accepted input with one "://", the path is "/" when no '/'
\* follows "://", else the text from the first '/' to before the first '?'
\* after it; so it begins with '/' and holds no '?'.
InvPathRule ==
  Accepted /\ SingleSep(url) =>
    /\ res.path = PathOf(AfterFirstSep(url))
    /\ res.path # <<>> /\ res.path[1] = "/"
    /\ Positions(res.path, {"?"}) = {}

\* a path of more than the '/', after a host and cut at a '?'
WitPathRule ==
  /\ pc = "done" /\ res.tag = "Ok" /\ SingleSep(url)
  /\ res.host = <<"h">>
  /\ Len(res.path) > 1
  /\ res.query # None

\* C6: for an accepted input with one "://", the query is absent exactly
\* when no '?' follows "://", and else is all the text after the first '?',
\* which may be empty; an empty query is not an absent one.
InvQueryRule ==
  Accepted /\ SingleSep(url) =>
    /\ res.query = None <=> Positions(AfterFirstSep(url), {"?"}) = {}
    /\ res.query = QueryOf(AfterFirstSep(url))
    /\ Some(<<>>) # None

\* a query that is present and empty
WitQueryRule ==
  /\ pc = "done" /\ res.tag = "Ok" /\ SingleSep(url)
  /\ res.query = Some(<<>>)
  /\ res.query # None

\* C7: parsing the canonical reconstruction of an accepted input succeeds
\* and gives the same host, port, path and query.
InvRoundTrip ==
  Accepted =>
    LET again == Url_new(Canonical(res))
    IN  /\ again.tag = "Ok"
        /\ again.host = res.host
        /\ again.port = res.port
        /\ again.path = res.path
        /\ again.query = res.query

\* C8: only the first "://" splits the input: path and query come from all
\* of the text after it, the query reaching the end of the input.
InvFirstSepOnly ==
  Accepted =>
    /\ res.path = PathOf(AfterFirstSep(url))
    /\ res.query = QueryOf(AfterFirstSep(url))

\* C9: Url::new never panics and fails for the scheme alone; an Ok value
\* has a port, so port() returns.
InvNoPanic ==
  /\ pc # "panicked"
  /\ Returned =>
       /\ res.tag \in {"Ok", "Err"}
       /\ res.tag = "Err" => ~HasScheme(url)
       /\ res.tag = "Ok" => res.port # None
  /\ out[1] # "panic"

\* port() has returned for an input that ends with the ':' of the port
WitNoPanic ==
  /\ pc = "read" /\ out[1] = "port"
  /\ url[Len(url)] = ":"
  /\ Positions(AfterFirstSep(url), {":"}) = {Len(AfterFirstSep(url))}

\* C10: the host of an accepted input holds no ':', '/' or '?'.
InvHostNoDelimiter == Accepted => Positions(res.host, {":", "/", "?"}) = {}

====
